---- MODULE Spec2Model ----
(***************************************************************************)
(* The Direct3D 11 rendering context of mpv (video/out/d3d11/context.c):   *)
(* the swapchain lifecycle (init, resize, backbuffer, present, uninit) and *)
(* the vsync-timing estimator d3d11_get_vsync with its clock conversion    *)
(* qpc_to_us.                                                              *)
(*                                                                         *)
(* The C code computes with int64_t, unsigned and int values that do not   *)
(* fit the integers of the model checker, so every C integer is a wide     *)
(* integer: a sign and a magnitude of base-2^15 limbs, least significant   *)
(* first, without leading zero limbs.  The conversions to unsigned and to  *)
(* int reduce modulo 2^32 exactly as the C conversions do.                 *)
(***************************************************************************)
EXTENDS Integers, Sequences, FiniteSets, TLC

----------------------------------------------------------------------------
(* Wide integers: magnitudes *)

LimbBase == 2^15

RECURSIVE MagTrim(_)
MagTrim(s) ==
    IF s = <<>> THEN s
    ELSE IF s[Len(s)] = 0 THEN MagTrim(SubSeq(s, 1, Len(s) - 1)) ELSE s

MagLimb(s, i) == IF i <= Len(s) THEN s[i] ELSE 0

MagMaxLen(a, b) == IF Len(a) >= Len(b) THEN Len(a) ELSE Len(b)

\* A magnitude below 2^30 as an integer of the model checker, and back.
MagIsSmall(s) == Len(s) <= 2

MagToInt(s) == MagLimb(s, 1) + MagLimb(s, 2) * LimbBase

MagFromInt(n) ==
    MagTrim(<<n % LimbBase, (n \div LimbBase) % LimbBase, n \div (LimbBase * LimbBase)>>)

RECURSIVE MagAddFrom(_, _, _, _)
MagAddFrom(a, b, i, carry) ==
    IF i > MagMaxLen(a, b)
    THEN (IF carry = 0 THEN <<>> ELSE <<carry>>)
    ELSE LET t == MagLimb(a, i) + MagLimb(b, i) + carry
         IN  <<t % LimbBase>> \o MagAddFrom(a, b, i + 1, t \div LimbBase)

MagAdd(a, b) ==
    IF MagIsSmall(a) /\ MagIsSmall(b)
    THEN MagFromInt(MagToInt(a) + MagToInt(b))
    ELSE MagAddFrom(a, b, 1, 0)

\* a - b for a >= b
RECURSIVE MagSubFrom(_, _, _, _)
MagSubFrom(a, b, i, borrow) ==
    IF i > Len(a) THEN <<>>
    ELSE LET t == a[i] - MagLimb(b, i) - borrow
         IN  <<(t + LimbBase) % LimbBase>> \o MagSubFrom(a, b, i + 1, IF t < 0 THEN 1 ELSE 0)

MagSub(a, b) ==
    IF MagIsSmall(a)
    THEN MagFromInt(MagToInt(a) - MagToInt(b))
    ELSE MagTrim(MagSubFrom(a, b, 1, 0))

\* -1, 0 or 1 as a < b, a = b or a > b, comparing from limb i down
RECURSIVE MagCmpFrom(_, _, _)
MagCmpFrom(a, b, i) ==
    IF i = 0 THEN 0
    ELSE IF a[i] < b[i] THEN -1
    ELSE IF a[i] > b[i] THEN 1
    ELSE MagCmpFrom(a, b, i - 1)

MagCmp(a, b) ==
    IF Len(a) < Len(b) THEN -1
    ELSE IF Len(a) > Len(b) THEN 1
    ELSE MagCmpFrom(a, b, Len(a))

\* a * d for one limb d
RECURSIVE MagMulLimbFrom(_, _, _, _)
MagMulLimbFrom(a, d, i, carry) ==
    IF i > Len(a)
    THEN (IF carry = 0 THEN <<>> ELSE <<carry>>)
    ELSE LET t == a[i] * d + carry
         IN  <<t % LimbBase>> \o MagMulLimbFrom(a, d, i + 1, t \div LimbBase)

MagMulLimb(a, d) == IF d = 0 THEN <<>> ELSE MagMulLimbFrom(a, d, 1, 0)

MagShift(a, k) == IF a = <<>> THEN a ELSE [i \in 1..k |-> 0] \o a

RECURSIVE MagMulFrom(_, _, _)
MagMulFrom(a, b, i) ==
    IF i > Len(b) THEN <<>>
    ELSE MagAdd(MagShift(MagMulLimb(a, b[i]), i - 1), MagMulFrom(a, b, i + 1))

\* Whether the product of two small magnitudes is small
MagMulIsSmall(a, b) ==
    /\ MagIsSmall(a)
    /\ MagIsSmall(b)
    /\ (a = <<>> \/ MagToInt(b) <= (LimbBase * LimbBase - 1) \div MagToInt(a))

MagMul(a, b) ==
    IF MagMulIsSmall(a, b)
    THEN MagFromInt(MagToInt(a) * MagToInt(b))
    ELSE MagMulFrom(a, b, 1)

\* The half of the range <<lo, hi>> of limbs that holds the quotient limb,
\* given whether the limb in the middle is not too large
MagHalf(range, fits) ==
    IF fits
    THEN <<(range[1] + range[2] + 1) \div 2, range[2]>>
    ELSE <<range[1], (range[1] + range[2] + 1) \div 2 - 1>>

\* The largest limb q in the range with q * b <= r (bisection)
RECURSIVE MagQuotLimb(_, _, _)
MagQuotLimb(r, b, range) ==
    IF range[1] = range[2] THEN range[1]
    ELSE MagQuotLimb(r, b,
            MagHalf(range, MagCmp(MagMulLimb(b, (range[1] + range[2] + 1) \div 2), r) <= 0))

\* Long division of a by b /= 0: limb i of a is brought down to the running
\* remainder r, q holds the quotient limbs found so far;
\* <<quotient, remainder>>
RECURSIVE MagDivFrom(_, _, _, _, _)
MagDivPut(a, b, i, cur, q, d) ==
    MagDivFrom(a, b, i - 1, MagSub(cur, MagMulLimb(b, d)), <<d>> \o q)

MagDivLimb(a, b, i, cur, q) ==
    MagDivPut(a, b, i, cur, q, MagQuotLimb(cur, b, <<0, LimbBase - 1>>))

MagDivFrom(a, b, i, r, q) ==
    IF i = 0 THEN <<MagTrim(q), r>>
    ELSE MagDivLimb(a, b, i, MagTrim(<<a[i]>> \o r), q)

\* Division by a divisor d of at most 2^26 in steps the model checker's
\* integers hold: a limb is taken in chunks of base K, where d * K <= 2^31
MagChunkBase(d) == IF d <= 2^16 THEN 2^15 ELSE 2^5

MagChunked(b) == MagIsSmall(b) /\ MagToInt(b) <= 2^26

\* The chunk at place scale of limb i is brought down to the remainder r: t
\* is the running value, limbq the quotient limb so far, q the quotient limbs
\* above it
RECURSIVE MagDivIntFrom(_, _, _, _, _, _, _, _)
MagDivIntStep(a, d, K, i, scale, t, limbq, q) ==
    MagDivIntFrom(a, d, K,
                  IF scale = 1 THEN i - 1 ELSE i,
                  IF scale = 1 THEN LimbBase \div K ELSE scale \div K,
                  t % d,
                  IF scale = 1 THEN 0 ELSE limbq + (t \div d) * scale,
                  IF scale = 1 THEN <<limbq + t \div d>> \o q ELSE q)

MagDivIntFrom(a, d, K, i, scale, r, limbq, q) ==
    IF i = 0 THEN <<MagTrim(q), MagFromInt(r)>>
    ELSE MagDivIntStep(a, d, K, i, scale, (r * K) + ((a[i] \div scale) % K), limbq, q)

MagDivInt(a, d, K) == MagDivIntFrom(a, d, K, Len(a), LimbBase \div K, 0, 0, <<>>)

\* <<quotient, remainder>> of a by b /= 0
MagDivMod(a, b) ==
    IF MagIsSmall(a) /\ MagIsSmall(b)
    THEN <<MagFromInt(MagToInt(a) \div MagToInt(b)), MagFromInt(MagToInt(a) % MagToInt(b))>>
    ELSE IF MagCmp(a, b) < 0 THEN <<(<<>>), a>>
    ELSE IF MagChunked(b) THEN MagDivInt(a, MagToInt(b), MagChunkBase(MagToInt(b)))
    ELSE MagDivFrom(a, b, Len(a), <<>>, <<>>)

----------------------------------------------------------------------------
(* Wide integers: signed values *)

WMake(neg, mag) == [neg |-> neg /\ mag # <<>>, mag |-> mag]

\* The wide integer of a model-checker integer n, |n| < 2^31
W(n) == WMake(n < 0, MagFromInt(IF n < 0 THEN -n ELSE n))

WZero == W(0)

WOne == W(1)

WMillion == W(1000000)

WNeg(x) == WMake(~x.neg, x.mag)

WAdd(x, y) ==
    IF x.neg = y.neg THEN WMake(x.neg, MagAdd(x.mag, y.mag))
    ELSE IF MagCmp(x.mag, y.mag) >= 0 THEN WMake(x.neg, MagSub(x.mag, y.mag))
    ELSE WMake(y.neg, MagSub(y.mag, x.mag))

WSub(x, y) == WAdd(x, WNeg(y))

WMul(x, y) == WMake(x.neg # y.neg, MagMul(x.mag, y.mag))

\* C's / and %: the quotient truncates toward zero, the remainder has the
\* sign of the dividend
WQuot(x, y) == WMake(x.neg # y.neg, MagDivMod(x.mag, y.mag)[1])

WRem(x, y) == WMake(x.neg, MagDivMod(x.mag, y.mag)[2])

WLess(x, y) ==
    IF x.neg # y.neg THEN x.neg
    ELSE IF x.neg THEN MagCmp(x.mag, y.mag) > 0
    ELSE MagCmp(x.mag, y.mag) < 0

WLeq(x, y) == x = y \/ WLess(x, y)

\* 2^32, 2^31 and 2^63
WTwo32 == WMul(W(2^16), W(2^16))

WTwo31 == WMul(W(2^16), W(2^15))

WTwo63 == WMul(WTwo31, WTwo32)

\* A magnitude modulo 2^32: two limbs and the low two bits of the third
MagMod32(m) == MagTrim(<<MagLimb(m, 1), MagLimb(m, 2), MagLimb(m, 3) % 4>>)

\* Conversion to unsigned (32 bits): the value modulo 2^32
ToUnsigned(x) ==
    IF ~x.neg THEN WMake(FALSE, MagMod32(x.mag))
    ELSE IF MagMod32(x.mag) = <<>> THEN WMake(FALSE, <<>>)
    ELSE WMake(FALSE, MagSub(WTwo32.mag, MagMod32(x.mag)))

\* Conversion to int (32 bits, two's complement)
IntOfUnsigned(u) == IF WLess(u, WTwo31) THEN u ELSE WSub(u, WTwo32)

ToInt(x) == IntOfUnsigned(ToUnsigned(x))

\* Whether x is a value of int64_t
FitsInt64(x) == WLess(x, WTwo63) /\ WLeq(WNeg(WTwo63), x)

----------------------------------------------------------------------------
(* Bounds of the model and the values the environment supplies *)

\* Vsync steps the presentation engine's counters advance in the samples
MaxVsyncSteps == 1

\* Backbuffer textures one context wraps before the model stops resizing
MaxTex == 2

\* HRESULT is a signed 32-bit value; FAILED(hr) is hr < 0
S_OK == 0

\* 0x887A000B as a signed 32-bit value
DXGI_ERROR_FRAME_STATISTICS_DISJOINT == -2005270517

\* 0x887A0005 as a signed 32-bit value: a failure other than the disjoint one
DXGI_ERROR_DEVICE_REMOVED == -2005270523

FAILED(hr) == hr < 0

HResults == {S_OK, DXGI_ERROR_FRAME_STATISTICS_DISJOINT, DXGI_ERROR_DEVICE_REMOVED}

\* d3d11-sync-interval is an integer option in 0..4
SyncIntervals == 0..4

\* QueryPerformanceFrequency: 10 MHz
PerfFreqs == {W(10000000)}

\* A tick count more than 2^32 ticks after the first samples
FarQpcTime == WAdd(WTwo32, W(1020001))

\* DXGI_FRAME_STATISTICS members; 0 is what the engine fills in when a member
\* is not populated
SyncRefreshCounts == {W(100 + 2 * k) : k \in 0..MaxVsyncSteps}

SyncQPCTimes == {W(1000000), W(1020000), FarQpcTime}

Stats(pc, prc, src, sqt) == [PresentCount |-> pc, PresentRefreshCount |-> prc, SyncRefreshCount |-> src, SyncQPCTime |-> sqt]

\* Every pair of sync members with the present members populated, and the
\* samples that lack one or both present members
Samples ==
    {Stats(W(5), W(99), src, sqt) : src \in SyncRefreshCounts \cup {WZero}, sqt \in SyncQPCTimes \cup {WZero}}
    \cup {Stats(W(0), W(99), W(102), W(1020000)), Stats(W(5), W(0), W(102), W(1020000)), Stats(W(0), W(0), W(102), W(1020000))}

\* The samples the lifecycle is explored with: nothing populated, a first
\* vsync, a later vsync
NearSamples == {Stats(WZero, WZero, WZero, WZero), Stats(W(5), W(99), W(100), W(1000000)), Stats(W(7), W(101), W(102), W(1020000))}

\* When a query is not made its output holds nothing
NoSample == Stats(WZero, WZero, WZero, WZero)

\* What the output may hold when GetFrameStatistics fails: nothing, or a
\* sample of the new timeline
FailedSamples == {NoSample, Stats(W(5), W(99), W(102), W(1020000))}

\* GetLastPresentCount
SubmitCounts == {W(4), W(10)}

\* GetLastPresentCount before a GetFrameStatistics that fails: the count is
\* read and not used
SubmitCountsUnused == {W(4)}

\* QueryPerformanceCounter, as d3d11_swap_buffers reads it
QpcNows == {W(980000), W(1040000)}

\* QueryPerformanceCounter, as qpc_us_now reads it in d3d11_get_vsync
QpcNowsVsync == {W(1070000)}

\* mp_time_us
MpTimes == {W(5000000)}

\* struct vo_vsync_info as the caller passes it: every field unset (-1)
InfoUnset == [vsync_duration |-> W(-1), last_queue_display_time |-> W(-1), skipped_vsyncs |-> W(-1)]

InfoIns == {InfoUnset}

----------------------------------------------------------------------------
(* The clock adapter *)

\* A faulty qpc_to_us: the whole seconds only, without the remainder term
qpc_to_us_whole(perf_freq, qpc) ==
    WMul(WQuot(qpc, perf_freq), WMillion)

\* qpc / perf_freq * 1000000 + qpc % perf_freq * 1000000 / perf_freq
qpc_to_us(perf_freq, qpc) ==
    WAdd(WMul(WQuot(qpc, perf_freq), WMillion),
         WQuot(WMul(WRem(qpc, perf_freq), WMillion), perf_freq))

\* The intermediate terms of qpc_to_us, in evaluation order
qpc_to_us_terms(perf_freq, qpc) ==
    << WQuot(qpc, perf_freq),
       WMul(WQuot(qpc, perf_freq), WMillion),
       WRem(qpc, perf_freq),
       WMul(WRem(qpc, perf_freq), WMillion),
       WQuot(WMul(WRem(qpc, perf_freq), WMillion), perf_freq),
       qpc_to_us(perf_freq, qpc) >>

qpc_us_now(perf_freq, now) == qpc_to_us(perf_freq, now)

----------------------------------------------------------------------------
(* The vsync estimator: d3d11_get_vsync *)

\* The physical vsyncs passed since the last call (unsigned)
src_passed(stats, p) ==
    IF stats.SyncRefreshCount # WZero /\ p.last_sync_refresh_count # WZero
    THEN ToUnsigned(WSub(stats.SyncRefreshCount, p.last_sync_refresh_count))
    ELSE WZero

\* The ticks passed between those vsyncs: an int64_t difference stored in an
\* unsigned
sqt_passed(stats, p) ==
    IF stats.SyncQPCTime # WZero /\ p.last_sync_qpc_time # WZero
    THEN ToUnsigned(WSub(stats.SyncQPCTime, p.last_sync_qpc_time))
    ELSE WZero

\* A faulty vsync_duration_qpc: the passed ticks are not tested
vsync_duration_qpc_untested(p, src, sqt) ==
    IF src # WZero THEN WQuot(sqt, src) ELSE p.vsync_duration_qpc

\* The new value of p->vsync_duration_qpc
vsync_duration_qpc(p, src, sqt) ==
    IF src # WZero /\ sqt # WZero THEN WQuot(sqt, src) ELSE p.vsync_duration_qpc

\* A faulty disjoint_reset: the estimate and the submission time are
\* forgotten, too
disjoint_reset_all(p, hr) ==
    IF hr = DXGI_ERROR_FRAME_STATISTICS_DISJOINT
    THEN [p EXCEPT !.last_sync_refresh_count = WZero, !.last_sync_qpc_time = WZero,
                   !.vsync_duration_qpc = WZero, !.last_submit_qpc = WZero]
    ELSE p

\* A faulty disjoint_reset: the disjoint timeline is not noticed
disjoint_reset_never(p, hr) == p

\* On a disjoint timeline the last sample is forgotten
disjoint_reset(p, hr) ==
    IF hr = DXGI_ERROR_FRAME_STATISTICS_DISJOINT
    THEN [p EXCEPT !.last_sync_refresh_count = WZero, !.last_sync_qpc_time = WZero]
    ELSE p

\* Whether the display time of the last submitted frame is extrapolated
extrapolates(p, stats) ==
    /\ p.vsync_duration_qpc # WZero
    /\ stats.PresentCount # WZero
    /\ stats.PresentRefreshCount # WZero
    /\ stats.SyncRefreshCount # WZero
    /\ stats.SyncQPCTime # WZero

\* unsigned expected_sync_pc
expected_sync_pc(stats) ==
    ToUnsigned(WAdd(stats.PresentCount,
                    ToUnsigned(WSub(stats.SyncRefreshCount, stats.PresentRefreshCount))))

\* A faulty queued_frames: the difference is kept unsigned
queued_frames_unsigned(submit_count, stats) ==
    ToUnsigned(WSub(submit_count, expected_sync_pc(stats)))

\* int queued_frames = submit_count - expected_sync_pc
queued_frames(submit_count, stats) ==
    ToInt(ToUnsigned(WSub(submit_count, expected_sync_pc(stats))))

\* int64_t last_queue_display_time_qpc
last_queue_display_time_qpc(p, submit_count, stats) ==
    WAdd(stats.SyncQPCTime, WMul(queued_frames(submit_count, stats), p.vsync_duration_qpc))

\* A faulty display_time_published: the display time is published whenever
\* it is extrapolated
display_time_published_always(p, display_time_qpc) == TRUE

\* Only a display time at or after the last submission is published
display_time_published(p, display_time_qpc) == WLeq(p.last_submit_qpc, display_time_qpc)

\* A faulty vsync_skipped: only a sync interval of 0 skips the call
vsync_skipped_zero(p) == p.opts.sync_interval = 0

\* Whether d3d11_get_vsync returns before it queries the swapchain
vsync_skipped(p) == p.opts.sync_interval # 1

\* What one call leaves: the context, the caller's info, the fields of info it
\* assigned, the return statement it left by, and its locals
VsyncResult(p, info, written, exit, src, sqt, display) ==
    [p |-> p, info |-> info, written |-> written, exit |-> exit,
     src_passed |-> src, sqt_passed |-> sqt, display_time_qpc |-> display]

\* A faulty vsync_store: a member that is 0 does not replace the stored one
vsync_store_populated(p, stats, src, sqt) ==
    [p EXCEPT !.last_sync_refresh_count =
                  IF stats.SyncRefreshCount # WZero THEN stats.SyncRefreshCount ELSE @,
              !.last_sync_qpc_time =
                  IF stats.SyncQPCTime # WZero THEN stats.SyncQPCTime ELSE @,
              !.vsync_duration_qpc = vsync_duration_qpc(p, src, sqt)]

\* The stored sample and the estimate once the passed vsyncs and ticks are
\* taken
vsync_store(p, stats, src, sqt) ==
    [p EXCEPT !.last_sync_refresh_count = stats.SyncRefreshCount,
              !.last_sync_qpc_time = stats.SyncQPCTime,
              !.vsync_duration_qpc = vsync_duration_qpc(p, src, sqt)]

\* if (p->vsync_duration_qpc) info->vsync_duration = qpc_to_us(...)
info_vsync_duration(p, info) ==
    IF p.vsync_duration_qpc # WZero
    THEN [info EXCEPT !.vsync_duration = qpc_to_us(p.perf_freq, p.vsync_duration_qpc)]
    ELSE info

\* The fields of info assigned before the extrapolation
written_estimate(p) ==
    {"skipped_vsyncs"} \cup (IF p.vsync_duration_qpc # WZero THEN {"vsync_duration"} ELSE {})

\* if (last_queue_display_time_qpc >= p->last_submit_qpc) info->last_queue_display_time = ...
info_display_time(p, info, in, display_time_qpc) ==
    IF display_time_published(p, display_time_qpc)
    THEN [info EXCEPT !.last_queue_display_time =
            WAdd(in.mp_time, WSub(qpc_to_us(p.perf_freq, display_time_qpc),
                                  qpc_us_now(p.perf_freq, in.now)))]
    ELSE info

written_display_time(p, display_time_qpc) ==
    IF display_time_published(p, display_time_qpc) THEN {"last_queue_display_time"} ELSE {}

\* The extrapolation block, given the display time it computed
vsync_extrapolate(p, info, in, src, sqt, display_time_qpc) ==
    VsyncResult(p, info_display_time(p, info, in, display_time_qpc),
                written_estimate(p) \cup written_display_time(p, display_time_qpc),
                "end", src, sqt, display_time_qpc)

\* The call from the extrapolation test on: p holds the new estimate, info the
\* duration
vsync_report(p, info, in, src, sqt) ==
    IF extrapolates(p, in.stats)
    THEN vsync_extrapolate(p, info, in, src, sqt,
                           last_queue_display_time_qpc(p, in.submit_count, in.stats))
    ELSE VsyncResult(p, info, written_estimate(p), "end", src, sqt, WZero)

\* The call from the assignment of info->vsync_duration on
vsync_estimated(p, info, in, src, sqt) ==
    vsync_report(p, info_vsync_duration(p, info), in, src, sqt)

\* The call once src_passed and sqt_passed are computed
vsync_passed(p, info, in, src, sqt) ==
    vsync_estimated(vsync_store(p, in.stats, src, sqt), info, in, src, sqt)

\* A faulty vsync_update: info->skipped_vsyncs is not assigned
vsync_update_unreported(p, info, in) ==
    vsync_passed(p, info, in, src_passed(in.stats, p), sqt_passed(in.stats, p))

\* The part of d3d11_get_vsync after both queries succeeded
vsync_update(p, info, in) ==
    vsync_passed(p, [info EXCEPT !.skipped_vsyncs = WZero], in,
                 src_passed(in.stats, p), sqt_passed(in.stats, p))

\* A faulty d3d11_get_vsync: the result of GetFrameStatistics is not tested
d3d11_get_vsync_unchecked(p, info, in) ==
    IF vsync_skipped(p)
    THEN VsyncResult(p, info, {}, "sync_interval", WZero, WZero, WZero)
    ELSE IF FAILED(in.hr_count)
    THEN VsyncResult(p, info, {}, "GetLastPresentCount", WZero, WZero, WZero)
    ELSE vsync_update(disjoint_reset(p, in.hr_stats), info, in)

d3d11_get_vsync(p, info, in) ==
    IF vsync_skipped(p)
    THEN VsyncResult(p, info, {}, "sync_interval", WZero, WZero, WZero)
    ELSE IF FAILED(in.hr_count)
    THEN VsyncResult(p, info, {}, "GetLastPresentCount", WZero, WZero, WZero)
    ELSE IF FAILED(in.hr_stats)
    THEN VsyncResult(disjoint_reset(p, in.hr_stats), info, {}, "GetFrameStatistics", WZero, WZero, WZero)
    ELSE vsync_update(disjoint_reset(p, in.hr_stats), info, in)

\* The inputs of one call that draws its sample from samples: the output of
\* a failed GetFrameStatistics is one of FailedSamples, and GetFrameStatistics
\* is not called after a failed GetLastPresentCount
VsyncInsOf(samples) ==
    { [hr_count |-> S_OK, submit_count |-> sc, hr_stats |-> S_OK, stats |-> st, now |-> now, mp_time |-> mt] :
        sc \in SubmitCounts, st \in samples, now \in QpcNowsVsync, mt \in MpTimes }
    \cup
    { [hr_count |-> S_OK, submit_count |-> sc, hr_stats |-> hs, stats |-> st, now |-> WZero, mp_time |-> WZero] :
        sc \in SubmitCountsUnused, hs \in HResults \ {S_OK}, st \in FailedSamples }
    \cup
    { [hr_count |-> hc, submit_count |-> WZero, hr_stats |-> S_OK, stats |-> NoSample, now |-> WZero, mp_time |-> WZero] :
        hc \in HResults \ {S_OK} }

VsyncIns == VsyncInsOf(Samples)

VsyncInsNear == VsyncInsOf(NearSamples)

----------------------------------------------------------------------------
(* The swapchain lifecycle *)

\* A null pointer; a backbuffer texture is a positive number
NULL == 0

\* struct priv as talloc_zero and the first lines of d3d11_init leave it
PrivZero(sync_interval, perf_freq) ==
    [opts |-> [sync_interval |-> sync_interval],
     backbuffer |-> NULL, device |-> FALSE, swapchain |-> FALSE,
     perf_freq |-> perf_freq,
     last_sync_refresh_count |-> WZero, last_sync_qpc_time |-> WZero,
     vsync_duration_qpc |-> WZero, last_submit_qpc |-> WZero]

\* struct ra_ctx as ra_ctx_create hands it to init: ra is "null", "live" or
\* "destroyed" (a dangling pointer), vo_w32 tells whether the window is
\* initialised, ntex counts the textures the ra wrapped
CtxZero == [ra |-> "null", vo_w32 |-> FALSE, ntex |-> 0]

\* An entry of the record of the calls an operation made on the platform, with
\* the backbuffer the context held at that moment
Event(name, p) == [ev |-> name, backbuffer |-> p.backbuffer]

\* ra_tex_free(ctx->ra, &p->backbuffer): destroys a held texture, clears the
\* pointer
ra_tex_free(p) ==
    [p |-> [p EXCEPT !.backbuffer = NULL],
     trace |-> IF p.backbuffer # NULL THEN <<Event("tex_destroy", p)>> ELSE <<>>]

\* SAFE_RELEASE(p->swapchain)
release_swapchain(p) ==
    [p |-> [p EXCEPT !.swapchain = FALSE],
     trace |-> IF p.swapchain THEN <<Event("Release_swapchain", p)>> ELSE <<>>]

\* SAFE_RELEASE(p->device)
release_device(p) ==
    [p |-> [p EXCEPT !.device = FALSE],
     trace |-> IF p.device THEN <<Event("Release_device", p)>> ELSE <<>>]

\* get_backbuffer: the texture wrapped around buffer 0, or NULL
get_backbuffer(p, ctx, in) ==
    IF FAILED(in.hr_buffer)
    THEN [tex |-> NULL, ctx |-> ctx, trace |-> <<Event("GetBuffer", p)>>]
    ELSE IF in.wrap_ok
    THEN [tex |-> ctx.ntex + 1, ctx |-> [ctx EXCEPT !.ntex = ctx.ntex + 1],
          trace |-> <<Event("GetBuffer", p), Event("ra_d3d11_wrap_tex", p)>>]
    ELSE [tex |-> NULL, ctx |-> ctx,
          trace |-> <<Event("GetBuffer", p), Event("ra_d3d11_wrap_tex", p)>>]

\* A faulty resize: fails when the backbuffer cannot be acquired again
resize_checked(p0, ctx0, in) ==
    LET f  == ra_tex_free(p0)
        t1 == f.trace \o <<Event("ResizeBuffers", f.p)>>
    IN  IF FAILED(in.hr_resize)
        THEN [p |-> f.p, ctx |-> ctx0, ret |-> FALSE, trace |-> t1]
        ELSE LET g == get_backbuffer(f.p, ctx0, in)
             IN  [p |-> [f.p EXCEPT !.backbuffer = g.tex], ctx |-> g.ctx,
                  ret |-> g.tex # NULL, trace |-> t1 \o g.trace]

\* A faulty resize: ResizeBuffers while the backbuffer is still held
resize_holding(p0, ctx0, in) ==
    LET t1 == <<Event("ResizeBuffers", p0)>>
    IN  IF FAILED(in.hr_resize)
        THEN [p |-> p0, ctx |-> ctx0, ret |-> FALSE, trace |-> t1]
        ELSE LET g == get_backbuffer(p0, ctx0, in)
             IN  [p |-> [p0 EXCEPT !.backbuffer = g.tex], ctx |-> g.ctx,
                  ret |-> TRUE, trace |-> t1 \o g.trace]

resize(p0, ctx0, in) ==
    LET f  == ra_tex_free(p0)
        t1 == f.trace \o <<Event("ResizeBuffers", f.p)>>
    IN  IF FAILED(in.hr_resize)
        THEN [p |-> f.p, ctx |-> ctx0, ret |-> FALSE, trace |-> t1]
        ELSE LET g == get_backbuffer(f.p, ctx0, in)
             IN  [p |-> [f.p EXCEPT !.backbuffer = g.tex], ctx |-> g.ctx,
                  ret |-> TRUE, trace |-> t1 \o g.trace]

d3d11_reconfig(p0, ctx0, in) ==
    LET r == resize(p0, ctx0, in)
    IN  [r EXCEPT !.trace = <<Event("vo_w32_config", p0)>> \o r.trace]

\* A faulty d3d11_control: returns what vo_w32_control returned even when the
\* resize failed
d3d11_control_forwards(p0, ctx0, in) ==
    IF in.resized
    THEN LET r == resize(p0, ctx0, in)
         IN  [p |-> r.p, ctx |-> r.ctx, trace |-> r.trace, ret |-> in.ret]
    ELSE [p |-> p0, ctx |-> ctx0, trace |-> <<>>, ret |-> in.ret]

\* ret is what vo_w32_control returned, resized whether it set VO_EVENT_RESIZE
d3d11_control(p0, ctx0, in) ==
    IF in.resized
    THEN LET r == resize(p0, ctx0, in)
         IN  [p |-> r.p, ctx |-> r.ctx, trace |-> r.trace,
              ret |-> IF ~r.ret THEN "VO_ERROR" ELSE in.ret]
    ELSE [p |-> p0, ctx |-> ctx0, trace |-> <<>>, ret |-> in.ret]

\* A faulty d3d11_start_frame: hands out the backbuffer without testing it
d3d11_start_frame_untested(p) ==
    [ret |-> TRUE, out_fbo |-> [tex |-> p.backbuffer, flip |-> FALSE], written |-> TRUE]

\* The fbo written to *out_fbo, or none
d3d11_start_frame(p) ==
    IF p.backbuffer = NULL
    THEN [ret |-> FALSE, out_fbo |-> [tex |-> NULL, flip |-> FALSE], written |-> FALSE]
    ELSE [ret |-> TRUE, out_fbo |-> [tex |-> p.backbuffer, flip |-> FALSE], written |-> TRUE]

\* A faulty d3d11_swap_buffers: presenting forgets the time of the last vsync
d3d11_swap_buffers_forgets(p, now) ==
    [p |-> [p EXCEPT !.last_submit_qpc = now, !.last_sync_qpc_time = WZero],
     trace |-> <<Event("Present", p)>>]

d3d11_swap_buffers(p, now) ==
    [p |-> [p EXCEPT !.last_submit_qpc = now],
     trace |-> <<Event("Present", p)>>]

\* A faulty d3d11_uninit: the device is released before the swapchain
d3d11_uninit_device_first(p0, ctx0) ==
    LET f  == IF ctx0.ra # "null" THEN ra_tex_free(p0) ELSE [p |-> p0, trace |-> <<>>]
        d  == release_device(f.p)
        w  == <<Event("vo_w32_uninit", d.p)>>
        s  == release_swapchain(d.p)
        r  == IF ctx0.ra # "null" THEN <<Event("ra_destroy", s.p)>> ELSE <<>>
    IN  [p |-> s.p,
         ctx |-> [ctx0 EXCEPT !.vo_w32 = FALSE,
                              !.ra = IF ctx0.ra # "null" THEN "destroyed" ELSE "null"],
         trace |-> f.trace \o d.trace \o w \o s.trace \o r]

d3d11_uninit(p0, ctx0) ==
    LET f  == IF ctx0.ra # "null" THEN ra_tex_free(p0) ELSE [p |-> p0, trace |-> <<>>]
        s  == release_swapchain(f.p)
        w  == <<Event("vo_w32_uninit", s.p)>>
        d  == release_device(s.p)
        r  == IF ctx0.ra # "null" THEN <<Event("ra_destroy", d.p)>> ELSE <<>>
    IN  [p |-> d.p,
         ctx |-> [ctx0 EXCEPT !.vo_w32 = FALSE,
                              !.ra = IF ctx0.ra # "null" THEN "destroyed" ELSE "null"],
         trace |-> f.trace \o s.trace \o w \o d.trace \o r]

\* A faulty error path: returns false without d3d11_uninit
init_error_returns(p, ctx, trace) ==
    [p |-> p, ctx |-> ctx, ret |-> FALSE, trace |-> trace]

\* goto error
init_error(p, ctx, trace) ==
    LET u == d3d11_uninit(p, ctx)
    IN  [p |-> u.p, ctx |-> u.ctx, ret |-> FALSE, trace |-> trace \o u.trace]

d3d11_init(sync_interval, perf_freq, in) ==
    LET p0   == PrivZero(sync_interval, perf_freq)
        c0   == CtxZero
        p1   == [p0 EXCEPT !.device = TRUE]
        t1   == <<Event("create_present_device", p0)>>
        c2   == [c0 EXCEPT !.ra = "live"]
        t2   == t1 \o <<Event("ra_d3d11_create", p1)>>
        c3   == [c2 EXCEPT !.vo_w32 = TRUE]
        t3   == t2 \o <<Event("vo_w32_init", p1)>>
        p4   == [p1 EXCEPT !.swapchain = TRUE]
        t4   == t3 \o <<Event("create_swapchain", p1)>>
        g    == get_backbuffer(p4, c3, in)
        p5   == [p4 EXCEPT !.backbuffer = g.tex]
    IN  IF ~in.device_ok THEN init_error(p0, c0, <<>>)
        ELSE IF ~in.spirv_ok THEN init_error(p1, c0, t1)
        ELSE IF ~in.ra_ok THEN init_error(p1, c0, t1)
        ELSE IF ~in.window_ok THEN init_error(p1, c2, t2)
        ELSE IF ~in.swapchain_ok THEN init_error(p1, c3, t3)
        ELSE IF p5.backbuffer = NULL THEN init_error(p5, g.ctx, t4 \o g.trace)
        ELSE [p |-> p5, ctx |-> g.ctx, ret |-> TRUE, trace |-> t4 \o g.trace]

\* The inputs of init: the outcome of each step, named by the first that fails
InitIn(fail) ==
    [device_ok |-> fail # "create_present_device",
     spirv_ok |-> fail # "spirv_compiler_init",
     ra_ok |-> fail # "ra_d3d11_create",
     window_ok |-> fail # "vo_w32_init",
     swapchain_ok |-> fail # "create_swapchain",
     hr_buffer |-> IF fail = "GetBuffer" THEN DXGI_ERROR_DEVICE_REMOVED ELSE S_OK,
     wrap_ok |-> fail # "ra_d3d11_wrap_tex"]

InitFailures == {"create_present_device", "spirv_compiler_init", "ra_d3d11_create", "vo_w32_init", "create_swapchain", "GetBuffer", "ra_d3d11_wrap_tex"}

InitIns == {InitIn(f) : f \in InitFailures \cup {"none"}}

\* The inputs of a resize: the outcome of ResizeBuffers, GetBuffer and the wrap
ResizeIns ==
    { [hr_resize |-> S_OK, hr_buffer |-> S_OK, wrap_ok |-> TRUE],
      [hr_resize |-> S_OK, hr_buffer |-> S_OK, wrap_ok |-> FALSE],
      [hr_resize |-> S_OK, hr_buffer |-> DXGI_ERROR_DEVICE_REMOVED, wrap_ok |-> FALSE],
      [hr_resize |-> DXGI_ERROR_DEVICE_REMOVED, hr_buffer |-> S_OK, wrap_ok |-> FALSE] }

\* What vo_w32_control returns
ControlRets == {"VO_TRUE", "VO_NOTIMPL"}

----------------------------------------------------------------------------
(* The state machine: the host calls the context's operations one at a time *)

VARIABLES p, ctx, created, call, engine

vars == <<p, ctx, created, call, engine>>

\* What the last operation was given and what it gave back
Call(op, ret, trace, in, out) == [op |-> op, ret |-> ret, trace |-> trace, in |-> in, out |-> out]

None == [none |-> TRUE]

Bool(b) == IF b THEN "true" ELSE "false"

\* The vsync counter and the vsync time the presentation engine last reported
\* on its current timeline; 0 when it reported none yet
EngineZero == [SyncRefreshCount |-> WZero, SyncQPCTime |-> WZero]

\* On one timeline the vsync counter and the vsync time of the samples the
\* engine delivers never go back; a member the engine did not populate is 0
OnTimeline(in) ==
    \/ FAILED(in.hr_count)
    \/ FAILED(in.hr_stats)
    \/ /\ in.stats.SyncRefreshCount = WZero \/ WLeq(engine.SyncRefreshCount, in.stats.SyncRefreshCount)
       /\ in.stats.SyncQPCTime = WZero \/ WLeq(engine.SyncQPCTime, in.stats.SyncQPCTime)

\* The engine's counters after a query that ended with hr: a disjoint timeline
\* starts the counters anew
EngineAfter(in) ==
    IF FAILED(in.hr_count) THEN engine
    ELSE IF in.hr_stats = DXGI_ERROR_FRAME_STATISTICS_DISJOINT THEN EngineZero
    ELSE IF FAILED(in.hr_stats) THEN engine
    ELSE [SyncRefreshCount |-> IF in.stats.SyncRefreshCount = WZero THEN engine.SyncRefreshCount ELSE in.stats.SyncRefreshCount,
          SyncQPCTime |-> IF in.stats.SyncQPCTime = WZero THEN engine.SyncQPCTime ELSE in.stats.SyncQPCTime]

Init ==
    /\ engine = EngineZero
    /\ p = PrivZero(1, W(10000000))
    /\ ctx = CtxZero
    /\ created = FALSE
    /\ call = Call("none", "void", <<>>, None, None)

\* ra_ctx_create: a fresh context is initialised; it is kept when init succeeds
InitCtx ==
    /\ ~created
    /\ \E si \in SyncIntervals, pf \in PerfFreqs, in \in InitIns :
        LET r == d3d11_init(si, pf, in)
        IN  /\ p' = r.p
            /\ ctx' = r.ctx
            /\ created' = r.ret
            /\ call' = Call("init", Bool(r.ret), r.trace, in, None)
    /\ engine' = EngineZero

\* A resize that wraps a new texture needs one of the MaxTex textures
ResizeAllowed(in) == (~FAILED(in.hr_resize) /\ ~FAILED(in.hr_buffer) /\ in.wrap_ok) => ctx.ntex < MaxTex

Reconfig ==
    /\ created
    /\ \E in \in ResizeIns :
        /\ ResizeAllowed(in)
        /\ LET r == d3d11_reconfig(p, ctx, in)
           IN  /\ p' = r.p
               /\ ctx' = r.ctx
               /\ call' = Call("reconfig", Bool(r.ret), r.trace, in, None)
    /\ UNCHANGED <<created, engine>>

Control ==
    /\ created
    /\ \E rs \in ResizeIns, ret \in ControlRets, resized \in BOOLEAN :
        LET in == [hr_resize |-> rs.hr_resize, hr_buffer |-> rs.hr_buffer, wrap_ok |-> rs.wrap_ok,
                   ret |-> ret, resized |-> resized]
        IN  /\ resized => ResizeAllowed(in)
            /\ ~resized => rs.hr_resize = S_OK /\ rs.wrap_ok
            /\ LET r == d3d11_control(p, ctx, in)
               IN  /\ p' = r.p
                   /\ ctx' = r.ctx
                   /\ call' = Call("control", r.ret, r.trace, in, None)
    /\ UNCHANGED <<created, engine>>

StartFrame ==
    /\ created
    /\ LET r == d3d11_start_frame(p)
       IN  call' = Call("start_frame", Bool(r.ret), <<>>, None, r)
    /\ UNCHANGED <<p, ctx, created, engine>>

\* d3d11_submit_frame: ra_d3d11_flush, then true
SubmitFrame ==
    /\ created
    /\ call' = Call("submit_frame", "true", <<Event("ra_d3d11_flush", p)>>, None, None)
    /\ UNCHANGED <<p, ctx, created, engine>>

SwapBuffers ==
    /\ created
    /\ \E now \in QpcNows :
        LET r == d3d11_swap_buffers(p, now)
        IN  /\ p' = r.p
            /\ call' = Call("swap_buffers", "void", r.trace, [now |-> now], None)
    /\ UNCHANGED <<ctx, created, engine>>

\* The call returns r to the host; the record of the call keeps the estimate
\* the call found
GetVsyncReturns(in, info, r) ==
    /\ p' = r.p
    /\ call' = Call("get_vsync", "void", <<>>,
                    in @@ [info |-> info, vsync_duration_qpc |-> p.vsync_duration_qpc],
                    [info |-> r.info, written |-> r.written, exit |-> r.exit,
                     src_passed |-> r.src_passed, sqt_passed |-> r.sqt_passed,
                     display_time_qpc |-> r.display_time_qpc])

GetVsync(ins) ==
    /\ created
    /\ \E in \in ins, info \in InfoIns :
        /\ OnTimeline(in)
        /\ GetVsyncReturns(in, info, d3d11_get_vsync(p, info, in))
        /\ engine' = EngineAfter(in)
    /\ UNCHANGED <<ctx, created>>

\* ra_ctx_destroy
Uninit ==
    /\ created
    /\ LET r == d3d11_uninit(p, ctx)
       IN  /\ p' = r.p
           /\ ctx' = r.ctx
           /\ call' = Call("uninit", "void", r.trace, None, None)
    /\ created' = FALSE
    /\ UNCHANGED engine

Next ==
    \/ InitCtx
    \/ Reconfig
    \/ Control
    \/ StartFrame
    \/ SubmitFrame
    \/ SwapBuffers
    \/ GetVsync(VsyncInsNear)
    \/ Uninit

Spec == Init /\ [][Next]_vars

----------------------------------------------------------------------------
(* The estimator on its own: a context whose init succeeded, presenting and *)
(* querying the vsync timing, with every sample of Samples                  *)

InitVsync ==
    /\ engine = EngineZero
    /\ \E si \in SyncIntervals, pf \in PerfFreqs :
        LET r == d3d11_init(si, pf, InitIn("none"))
        IN  /\ p = r.p
            /\ ctx = r.ctx
            /\ created = r.ret
            /\ call = Call("init", Bool(r.ret), r.trace, InitIn("none"), None)

NextVsync ==
    \/ SwapBuffers
    \/ GetVsync(VsyncIns)

SpecVsync == InitVsync /\ [][NextVsync]_vars

----------------------------------------------------------------------------
(* Properties of d3d11_get_vsync.  A step is a call of d3d11_get_vsync when *)
(* the call it records is one: p is the context before the call, p' after,  *)
(* call'.in what the call was given and call'.out what it gave back.        *)

\* The call asked the swapchain for the present count
AskedCount == call'.op = "get_vsync" /\ p.opts.sync_interval = 1

\* The call asked the swapchain for the frame statistics
AskedStats == AskedCount /\ ~FAILED(call'.in.hr_count)

\* The call left the caller's info as it was
InfoUntouched == call'.out.info = call'.in.info /\ call'.out.written = {}

\* C1: whenever the sync interval is not 1, d3d11_get_vsync assigns no field
\* of the caller's info and leaves every field of the context as it was,
\* whatever the sample and the submit count.
C1_NothingUnlessEveryVsync ==
    [][(call'.op = "get_vsync" /\ p.opts.sync_interval # 1) => (InfoUntouched /\ p' = p)]_vars

\* C1: a call with another sync interval returned after a presentation, while
\* the engine held a populated sample
C1_SkippedWithSample ==
    /\ call.op = "get_vsync"
    /\ p.opts.sync_interval # 1
    /\ call.in.hr_count = S_OK
    /\ call.in.hr_stats = S_OK
    /\ call.in.stats.SyncRefreshCount # WZero
    /\ call.in.stats.SyncQPCTime # WZero
    /\ p.last_submit_qpc # WZero

\* C2 as claimed: on a disjoint timeline the call zeroes the stored sample and
\* goes on with the sample, so that afterwards the stored sample is the
\* sample of the call and the estimate is as before.
C2_DisjointGoesOnWithSample ==
    [][(AskedStats /\ call'.in.hr_stats = DXGI_ERROR_FRAME_STATISTICS_DISJOINT)
        => /\ p'.last_sync_refresh_count = call'.in.stats.SyncRefreshCount
           /\ p'.last_sync_qpc_time = call'.in.stats.SyncQPCTime
           /\ p'.vsync_duration_qpc = p.vsync_duration_qpc]_vars

\* C2 as amended: on a disjoint timeline the call zeroes the stored sample and
\* returns: afterwards last_sync_refresh_count and last_sync_qpc_time are 0,
\* the estimate and last_submit_qpc are as before and no field of info is
\* assigned.
C2_DisjointResetsAndReturns ==
    [][(AskedStats /\ call'.in.hr_stats = DXGI_ERROR_FRAME_STATISTICS_DISJOINT)
        => /\ p' = [p EXCEPT !.last_sync_refresh_count = WZero, !.last_sync_qpc_time = WZero]
           /\ InfoUntouched
           /\ call'.out.exit = "GetFrameStatistics"]_vars

\* C2: a disjoint timeline was reported with a populated sample to a context
\* that held an estimate
C2_DisjointAfterEstimate ==
    /\ call.op = "get_vsync"
    /\ p.opts.sync_interval = 1
    /\ call.in.hr_count = S_OK
    /\ call.in.hr_stats = DXGI_ERROR_FRAME_STATISTICS_DISJOINT
    /\ call.in.stats.SyncRefreshCount # WZero
    /\ p.vsync_duration_qpc # WZero
    /\ p.last_sync_refresh_count = WZero

\* The four fields of the estimator are as before the call
EstimatorKept ==
    /\ p'.last_sync_refresh_count = p.last_sync_refresh_count
    /\ p'.last_sync_qpc_time = p.last_sync_qpc_time
    /\ p'.vsync_duration_qpc = p.vsync_duration_qpc
    /\ p'.last_submit_qpc = p.last_submit_qpc

\* One of the two queries of the call failed
QueryFailed == (AskedCount /\ FAILED(call'.in.hr_count)) \/ (AskedStats /\ FAILED(call'.in.hr_stats))

\* C3 as claimed: whenever one of the two queries fails, the four fields of
\* the estimator are as before the call, no field of info is assigned and the
\* call returns nothing to the caller.
C3_FailureKeepsEstimator ==
    [][QueryFailed => (EstimatorKept /\ InfoUntouched /\ call'.ret = "void")]_vars

\* C3 as amended: whenever one of the two queries fails, no field of info is
\* assigned, the call returns nothing to the caller, and the context is as
\* before the call, except that a GetFrameStatistics that fails with
\* DXGI_ERROR_FRAME_STATISTICS_DISJOINT zeroes last_sync_refresh_count and
\* last_sync_qpc_time.
C3_FailureKeepsAllButDisjoint ==
    [][QueryFailed
        => /\ InfoUntouched
           /\ call'.ret = "void"
           /\ IF AskedStats /\ call'.in.hr_stats = DXGI_ERROR_FRAME_STATISTICS_DISJOINT
              THEN p' = [p EXCEPT !.last_sync_refresh_count = WZero, !.last_sync_qpc_time = WZero]
              ELSE p' = p]_vars

\* C3: GetFrameStatistics failed, not with the disjoint status, on a context
\* that held a sample, an estimate and a submission time
C3_FailedWithEstimate ==
    /\ call.op = "get_vsync"
    /\ p.opts.sync_interval = 1
    /\ call.in.hr_count = S_OK
    /\ call.in.hr_stats = DXGI_ERROR_DEVICE_REMOVED
    /\ p.last_sync_refresh_count # WZero
    /\ p.last_sync_qpc_time # WZero
    /\ p.vsync_duration_qpc # WZero
    /\ p.last_submit_qpc # WZero

\* The call read a sample: both queries succeeded
GotSample == AskedStats /\ ~FAILED(call'.in.hr_stats)

\* The step follows a call that read a sample, too
AfterSample == call.op = "get_vsync" /\ call.out.exit = "end"

\* The vsyncs and the ticks between the stored sample and the sample of the
\* call, as integers: 0 when one of the two values is 0
RefreshesPassed ==
    IF call'.in.stats.SyncRefreshCount # WZero /\ p.last_sync_refresh_count # WZero
    THEN WSub(call'.in.stats.SyncRefreshCount, p.last_sync_refresh_count)
    ELSE WZero

TicksPassed ==
    IF call'.in.stats.SyncQPCTime # WZero /\ p.last_sync_qpc_time # WZero
    THEN WSub(call'.in.stats.SyncQPCTime, p.last_sync_qpc_time)
    ELSE WZero

\* The estimate changes in a call only if vsyncs and ticks passed
ChangesOnlyWhenPassed ==
    (call'.op = "get_vsync" /\ p'.vsync_duration_qpc # p.vsync_duration_qpc)
        => (GotSample /\ WLess(WZero, RefreshesPassed) /\ WLess(WZero, TicksPassed))

\* The sample of the call and the sample of the call before it have the same
\* non-zero SyncRefreshCount, or the same non-zero SyncQPCTime
SameCounterTwice ==
    /\ AfterSample
    /\ GotSample
    /\ \/ /\ call'.in.stats.SyncRefreshCount # WZero
          /\ call'.in.stats.SyncRefreshCount = call.in.stats.SyncRefreshCount
       \/ /\ call'.in.stats.SyncQPCTime # WZero
          /\ call'.in.stats.SyncQPCTime = call.in.stats.SyncQPCTime

\* C4 as claimed: the estimate changes in a call only if vsyncs and ticks
\* passed, and over a sequence of samples with one fixed non-zero
\* SyncRefreshCount (or SyncQPCTime) the estimate after every call is the
\* estimate before the sequence; stated for the sequences of two calls, whose
\* first call found the estimate call.in.vsync_duration_qpc.
C4_EstimateAsBeforeSequence ==
    [][/\ ChangesOnlyWhenPassed
       /\ SameCounterTwice => /\ p.vsync_duration_qpc = call.in.vsync_duration_qpc
                              /\ p'.vsync_duration_qpc = call.in.vsync_duration_qpc]_vars

\* C4 as amended: the estimate changes in a call only if vsyncs and ticks
\* passed, and over a sequence of samples with one fixed non-zero
\* SyncRefreshCount (or SyncQPCTime) the estimate after every call is the
\* estimate after the first call of the sequence: a call whose sample repeats
\* the stored non-zero SyncRefreshCount (or SyncQPCTime) leaves the estimate
\* as it was.
C4_EstimateAsAfterFirst ==
    [][/\ ChangesOnlyWhenPassed
       /\ (/\ GotSample
           /\ \/ /\ call'.in.stats.SyncRefreshCount # WZero
                 /\ call'.in.stats.SyncRefreshCount = p.last_sync_refresh_count
              \/ /\ call'.in.stats.SyncQPCTime # WZero
                 /\ call'.in.stats.SyncQPCTime = p.last_sync_qpc_time)
          => p'.vsync_duration_qpc = p.vsync_duration_qpc]_vars

\* C4: a call whose sample repeated the SyncRefreshCount while ticks passed
\* left an estimate in place
C4_CounterStayed ==
    /\ call.op = "get_vsync"
    /\ call.out.exit = "end"
    /\ call.in.stats.SyncRefreshCount # WZero
    /\ call.in.stats.SyncRefreshCount = p.last_sync_refresh_count
    /\ call.out.src_passed = WZero
    /\ call.out.sqt_passed # WZero
    /\ call.in.vsync_duration_qpc # WZero
    /\ p.vsync_duration_qpc = call.in.vsync_duration_qpc

\* syncQpcTime + queuedFrames * vsyncPeriodTicks, as integers, with the
\* estimate the call leaves
PredictedTicks ==
    WAdd(call'.in.stats.SyncQPCTime,
         WMul(WSub(call'.in.submit_count,
                   WAdd(call'.in.stats.PresentCount,
                        WSub(call'.in.stats.SyncRefreshCount, call'.in.stats.PresentRefreshCount))),
              p'.vsync_duration_qpc))

\* The call assigned info->last_queue_display_time
DisplayTimeWritten ==
    \/ "last_queue_display_time" \in call'.out.written
    \/ call'.out.info.last_queue_display_time # call'.in.info.last_queue_display_time

\* C5: a call assigns the display time of the last submitted frame only if
\* the predicted ticks are at or after last_submit_qpc, the time the last
\* d3d11_swap_buffers stored; when they are before it the field stays as the
\* caller passed it (the same statement, read from the other side).
C5_DisplayTimeNotBeforeSubmit ==
    [][(call'.op = "get_vsync" /\ DisplayTimeWritten)
        => (GotSample /\ ~WLess(PredictedTicks, p.last_submit_qpc))]_vars

\* C5: a call extrapolated a display time before the last submission and
\* left the field unset
C5_DisplayTimeWithheld ==
    /\ call.op = "get_vsync"
    /\ call.out.exit = "end"
    /\ extrapolates(p, call.in.stats)
    /\ WLess(call.out.display_time_qpc, p.last_submit_qpc)
    /\ call.out.info.last_queue_display_time = call.in.info.last_queue_display_time

\* The exact number of microseconds in ticks >= 0 at perf_freq, rounded down
TicksToMicros(perf_freq, ticks) == WQuot(WMul(ticks, WMillion), perf_freq)

\* (SyncQPCTime2 - SyncQPCTime1) / (SyncRefreshCount2 - SyncRefreshCount1) of
\* the samples of the call before and of the call, as integers
PeriodOfTwo ==
    WQuot(WSub(call'.in.stats.SyncQPCTime, call.in.stats.SyncQPCTime),
          WSub(call'.in.stats.SyncRefreshCount, call.in.stats.SyncRefreshCount))

\* Two calls in a row read samples whose sync members are non-zero and differ
TwoSamplesDiffer ==
    /\ AfterSample
    /\ GotSample
    /\ call.in.stats.SyncRefreshCount # WZero
    /\ call.in.stats.SyncQPCTime # WZero
    /\ call'.in.stats.SyncRefreshCount # WZero
    /\ call'.in.stats.SyncQPCTime # WZero
    /\ call'.in.stats.SyncRefreshCount # call.in.stats.SyncRefreshCount
    /\ call'.in.stats.SyncQPCTime # call.in.stats.SyncQPCTime

\* C6: of two calls in a row whose samples are non-zero and differ, the second
\* sets the estimate to the quotient of the tick and the vsync differences and
\* publishes it in microseconds when it is not 0; a call that finds no stored
\* sample only stores the sample; at 10 MHz the samples (100, 1000000) and
\* (102, 1020000) give 10000 ticks and 1000 microseconds.
C6_PeriodIsQuotientOfDifferences ==
    [][/\ TwoSamplesDiffer
          => /\ p'.vsync_duration_qpc = PeriodOfTwo
             /\ PeriodOfTwo # WZero
                  => /\ "vsync_duration" \in call'.out.written
                     /\ call'.out.info.vsync_duration = TicksToMicros(p.perf_freq, PeriodOfTwo)
       /\ (GotSample /\ p.last_sync_refresh_count = WZero /\ p.last_sync_qpc_time = WZero)
          => /\ p'.vsync_duration_qpc = p.vsync_duration_qpc
             /\ p'.last_sync_refresh_count = call'.in.stats.SyncRefreshCount
             /\ p'.last_sync_qpc_time = call'.in.stats.SyncQPCTime
       /\ (/\ TwoSamplesDiffer
           /\ p.perf_freq = W(10000000)
           /\ call.in.stats.SyncRefreshCount = W(100)
           /\ call.in.stats.SyncQPCTime = W(1000000)
           /\ call'.in.stats.SyncRefreshCount = W(102)
           /\ call'.in.stats.SyncQPCTime = W(1020000))
          => /\ p'.vsync_duration_qpc = W(10000)
             /\ call'.out.info.vsync_duration = W(1000)]_vars

\* C6: the second of two calls read a sample more than 2^32 ticks after the
\* first and left an estimate that is not the quotient of the differences
C6_PeriodOfFarSample ==
    /\ call.op = "get_vsync"
    /\ call.out.exit = "end"
    /\ call.in.stats.SyncRefreshCount = W(102)
    /\ call.in.stats.SyncQPCTime = FarQpcTime
    /\ call.out.src_passed = W(2)
    /\ call.out.sqt_passed = W(20001)
    /\ p.vsync_duration_qpc = W(10000)

----------------------------------------------------------------------------
(* The clock on its own: a context whose init captured the frequency of the *)
(* performance counter, converting counter values that can occur within 100 *)
(* years of the counter's start                                             *)

\* The whole seconds 0..MaxClockSeconds are converted, with a few later ones
MaxClockSeconds == 2

\* The seconds in 100 years of 365.25 days
SecondsIn100Years == WMul(W(31557600), W(100))

\* The highest frequency at which the counter does not roll over within 100
\* years: (2^63 - 1) / SecondsIn100Years, below 2.9 * 10^9 as qpc_to_us says
MaxPerfFreq == WQuot(WSub(WTwo63, WOne), SecondsIn100Years)

\* QueryPerformanceFrequency: 1 Hz, 1 kHz, the ACPI timer, 10 MHz, a TSC, and
\* the highest valid frequency
ClockFreqs == {WOne, W(1000), W(3579545), W(10000000), WMul(W(2900), WMillion), MaxPerfFreq}

\* Whole seconds since the counter started, up to the last one of 100 years
ClockSeconds ==
    {W(k) : k \in 0..MaxClockSeconds}
        \cup {W(59), W(86399), WTwo31, WSub(SecondsIn100Years, WOne)}

\* The ticks into a second: the first, the second, a third of them, the last
ClockRemainders(perf_freq) ==
    {r \in {WZero, WOne, WQuot(perf_freq, W(3)), WSub(perf_freq, WOne)} : WLess(r, perf_freq)}

\* Counter values in [0, perf_freq * SecondsIn100Years)
ClockTicks(perf_freq) ==
    {WAdd(WMul(s, perf_freq), r) : s \in ClockSeconds, r \in ClockRemainders(perf_freq)}

InitClock ==
    /\ engine = EngineZero
    /\ \E pf \in ClockFreqs :
        LET r == d3d11_init(1, pf, InitIn("none"))
        IN  /\ p = r.p
            /\ ctx = r.ctx
            /\ created = r.ret
            /\ call = Call("init", Bool(r.ret), r.trace, InitIn("none"), None)

\* qpc_to_us on a counter value, with the terms it computed on the way
QpcToUs ==
    /\ created
    /\ \E qpc \in ClockTicks(p.perf_freq) :
        call' = Call("qpc_to_us", "int64_t", <<>>, [qpc |-> qpc],
                     [us |-> qpc_to_us(p.perf_freq, qpc),
                      terms |-> qpc_to_us_terms(p.perf_freq, qpc)])
    /\ UNCHANGED <<p, ctx, created, engine>>

NextClock == QpcToUs

SpecClock == InitClock /\ [][NextClock]_vars

\* C7: for every valid frequency and every counter value in
\* [0, frequency * seconds in 100 years), qpc_to_us returns the exact floor of
\* qpc * 1000000 / frequency, and every intermediate term of
\* qpc / freq * 1000000 + qpc % freq * 1000000 / freq is in the int64_t range.
C7_ExactMicrosWithoutOverflow ==
    call.op = "qpc_to_us"
        => /\ WLeq(WZero, call.in.qpc)
           /\ WLess(call.in.qpc, WMul(p.perf_freq, SecondsIn100Years))
           /\ call.out.us = TicksToMicros(p.perf_freq, call.in.qpc)
           /\ \A i \in 1..Len(call.out.terms) : FitsInt64(call.out.terms[i])

\* C7: the last tick of the 100 years at the highest valid frequency was
\* converted, a value whose product with 1000000 is not an int64_t
C7_LastTickOfHighestFreq ==
    /\ call.op = "qpc_to_us"
    /\ p.perf_freq = MaxPerfFreq
    /\ WAdd(call.in.qpc, WOne) = WMul(p.perf_freq, SecondsIn100Years)
    /\ ~FitsInt64(WMul(call.in.qpc, WMillion))
    /\ call.out.us = WSub(WMul(SecondsIn100Years, WMillion), WOne)

----------------------------------------------------------------------------
(* Properties of the swapchain lifecycle.  The trace of a call lists the    *)
(* calls it made on the platform, each with the backbuffer held then.       *)

IsRelease(e) == e.ev \in {"tex_destroy", "Release_swapchain", "Release_device"}

\* The releases of a trace, in order
ReleaseOrder(trace) ==
    LET rel == SelectSeq(trace, IsRelease)
    IN  [i \in 1..Len(rel) |-> rel[i].ev]

\* The releases due for what is held, in the order backbuffer, swapchain, device
HeldOrder(backbuffer, swapchain, device) ==
    (IF backbuffer # NULL THEN <<"tex_destroy">> ELSE <<>>)
        \o (IF swapchain THEN <<"Release_swapchain">> ELSE <<>>)
        \o (IF device THEN <<"Release_device">> ELSE <<>>)

\* The steps of init that in made succeed
DeviceCreated(in) == in.device_ok

SwapchainCreated(in) ==
    in.device_ok /\ in.spirv_ok /\ in.ra_ok /\ in.window_ok /\ in.swapchain_ok

BackbufferAcquired(in) == SwapchainCreated(in) /\ ~FAILED(in.hr_buffer) /\ in.wrap_ok

\* C8: d3d11_uninit releases what the context holds in the order backbuffer,
\* swapchain, device, when called after a successful init and any resizes
\* and when called from every failure point of init; a resource that is not
\* held is skipped and the order of the others stays.
C8_ReleasesInOrder ==
    [][/\ call'.op = "uninit"
          => ReleaseOrder(call'.trace) = HeldOrder(p.backbuffer, p.swapchain, p.device)
       /\ (call'.op = "init" /\ call'.ret = "false")
          => ReleaseOrder(call'.trace)
                = HeldOrder(NULL, SwapchainCreated(call'.in), DeviceCreated(call'.in))]_vars

\* C8: d3d11_uninit ran on a context that held no backbuffer and released the
\* swapchain, then the device
C8_UninitWithoutBackbuffer ==
    /\ call.op = "uninit"
    /\ ReleaseOrder(call.trace) = <<"Release_swapchain", "Release_device">>
    /\ p.backbuffer = NULL
    /\ ~p.swapchain
    /\ ~p.device

Has(trace, name) == \E i \in 1..Len(trace) : trace[i].ev = name

\* C9: when a step of init fails, init returns false, the context holds no
\* backbuffer, swapchain or device, and every device and swapchain created
\* before the failing step was released.
C9_FailedInitHoldsNothing ==
    (call.op = "init" /\ ~BackbufferAcquired(call.in))
        => /\ call.ret = "false"
           /\ ~created
           /\ p.backbuffer = NULL
           /\ ~p.swapchain
           /\ ~p.device
           /\ DeviceCreated(call.in) <=> Has(call.trace, "Release_device")
           /\ SwapchainCreated(call.in) <=> Has(call.trace, "Release_swapchain")

\* C9: init failed at its last step, wrapping the backbuffer, with the device
\* and the swapchain created
C9_FailedAtBackbuffer ==
    /\ call.op = "init"
    /\ call.in = InitIn("ra_d3d11_wrap_tex")
    /\ call.ret = "false"
    /\ Has(call.trace, "create_swapchain")
    /\ Has(call.trace, "Release_swapchain")
    /\ Has(call.trace, "Release_device")

\* No backbuffer is held at a ResizeBuffers or at the release of the swapchain
ReleasedFirst(trace) ==
    \A i \in 1..Len(trace) :
        trace[i].ev \in {"ResizeBuffers", "Release_swapchain"} => trace[i].backbuffer = NULL

\* The call resized the swapchain, and ResizeBuffers and the re-acquire succeeded
ResizeSucceeded ==
    /\ call'.op = "reconfig" \/ (call'.op = "control" /\ call'.in.resized)
    /\ ~FAILED(call'.in.hr_resize)
    /\ ~FAILED(call'.in.hr_buffer)
    /\ call'.in.wrap_ok

\* C10: in every call of every operation, no backbuffer is held when the
\* swapchain is resized or released; and after a resize whose ResizeBuffers
\* and re-acquire succeed, a new backbuffer is held.
C10_BackbufferReleasedFirst ==
    [][/\ ReleasedFirst(call'.trace)
       /\ ResizeSucceeded => (p'.backbuffer # NULL /\ p'.backbuffer # p.backbuffer)]_vars

\* C10: a reconfig freed the held backbuffer, resized the swapchain and
\* acquired a new backbuffer
C10_ResizedWithBackbuffer ==
    /\ call.op = "reconfig"
    /\ call.ret = "true"
    /\ Len(call.trace) >= 3
    /\ call.trace[2].ev = "tex_destroy"
    /\ call.trace[2].backbuffer # NULL
    /\ call.trace[3].ev = "ResizeBuffers"
    /\ p.backbuffer # NULL
    /\ p.backbuffer # call.trace[2].backbuffer

----------------------------------------------------------------------------
(* Properties of the frame operations and of a failing resize *)

\* C11: d3d11_start_frame returns true exactly when a backbuffer is held; it
\* then writes the held backbuffer, not flipped, to *out_fbo; when it returns
\* false it writes nothing; in both cases the context is as before the call.
C11_StartFrameIffBackbuffer ==
    [][call'.op = "start_frame"
        => /\ call'.ret = "true" <=> p.backbuffer # NULL
           /\ call'.ret = "true"
                => /\ call'.out.written
                   /\ call'.out.out_fbo = [tex |-> p.backbuffer, flip |-> FALSE]
           /\ call'.ret = "false" => ~call'.out.written
           /\ p' = p
           /\ ctx' = ctx]_vars

\* C11: d3d11_start_frame failed on a live context that held no backbuffer
C11_StartFrameWithoutBackbuffer ==
    /\ call.op = "start_frame"
    /\ call.ret = "false"
    /\ created
    /\ p.swapchain
    /\ p.backbuffer = NULL

\* The call resized the swapchain: a reconfig, or a control on a resize event
Resized == call'.op = "reconfig" \/ (call'.op = "control" /\ call'.in.resized)

\* The call resized the swapchain and ResizeBuffers failed
ResizeFailed == Resized /\ FAILED(call'.in.hr_resize)

\* How many times the call made the platform call name
Count(trace, name) == Cardinality({i \in 1..Len(trace) : trace[i].ev = name})

\* C12: when ResizeBuffers fails, d3d11_reconfig returns false and
\* d3d11_control on a resize event returns VO_ERROR; no backbuffer is held
\* afterwards; ResizeBuffers is called once and the backbuffer is not asked
\* for in that call; and a context without a backbuffer fails every
\* d3d11_start_frame and gets a backbuffer only by a later resize whose
\* ResizeBuffers and re-acquire succeed.
C12_FailedResizeLeavesNoBackbuffer ==
    [][/\ ResizeFailed
          => /\ call'.op = "reconfig" => call'.ret = "false"
             /\ call'.op = "control" => call'.ret = "VO_ERROR"
             /\ p'.backbuffer = NULL
             /\ Count(call'.trace, "ResizeBuffers") = 1
             /\ Count(call'.trace, "GetBuffer") = 0
       /\ (created /\ p.backbuffer = NULL /\ call'.op = "start_frame") => call'.ret = "false"
       /\ (created /\ p.backbuffer = NULL /\ p'.backbuffer # NULL) => ResizeSucceeded]_vars

\* C12: a control on a resize event gave up a held backbuffer to a
\* ResizeBuffers that failed
C12_ControlResizeFailed ==
    /\ call.op = "control"
    /\ call.in.resized
    /\ FAILED(call.in.hr_resize)
    /\ call.ret = "VO_ERROR"
    /\ Has(call.trace, "tex_destroy")
    /\ p.backbuffer = NULL

----------------------------------------------------------------------------
(* Properties of the estimator's state *)

\* GetFrameStatistics reported a disjoint timeline to the call
Disjoint == AskedStats /\ call'.in.hr_stats = DXGI_ERROR_FRAME_STATISTICS_DISJOINT

\* The call before the step was one that was told of a disjoint timeline
AfterDisjoint ==
    /\ call.op = "get_vsync"
    /\ call.out.exit = "GetFrameStatistics"
    /\ call.in.hr_stats = DXGI_ERROR_FRAME_STATISTICS_DISJOINT

\* C13 as claimed: on a disjoint timeline the whole estimator state is zeroed:
\* last_sync_refresh_count, last_sync_qpc_time, vsync_duration_qpc and
\* last_submit_qpc are 0 after the call, so that the next call publishes no
\* vsync_duration.
C13_DisjointZeroesAll ==
    [][/\ Disjoint
          => /\ p'.last_sync_refresh_count = WZero
             /\ p'.last_sync_qpc_time = WZero
             /\ p'.vsync_duration_qpc = WZero
             /\ p'.last_submit_qpc = WZero
       /\ (AfterDisjoint /\ call'.op = "get_vsync")
          => "vsync_duration" \notin call'.out.written]_vars

\* C13 as amended: on a disjoint timeline only last_sync_refresh_count and
\* last_sync_qpc_time are zeroed; vsync_duration_qpc and last_submit_qpc keep
\* their values, and the next call that reads a sample publishes the
\* vsync_duration of the estimate made before the disjoint timeline, when
\* there is one.
C13_DisjointZeroesLastSample ==
    [][/\ Disjoint
          => /\ p'.last_sync_refresh_count = WZero
             /\ p'.last_sync_qpc_time = WZero
             /\ p'.vsync_duration_qpc = p.vsync_duration_qpc
             /\ p'.last_submit_qpc = p.last_submit_qpc
       /\ (AfterDisjoint /\ GotSample /\ p.vsync_duration_qpc # WZero)
          => /\ "vsync_duration" \in call'.out.written
             /\ call'.out.info.vsync_duration = TicksToMicros(p.perf_freq, p.vsync_duration_qpc)]_vars

\* C13: a disjoint timeline was reported to a context that had an estimate
\* and a submission time, and both are still there
C13_DisjointKeptEstimateAndSubmit ==
    /\ call.op = "get_vsync"
    /\ call.out.exit = "GetFrameStatistics"
    /\ call.in.hr_stats = DXGI_ERROR_FRAME_STATISTICS_DISJOINT
    /\ call.in.vsync_duration_qpc # WZero
    /\ p.vsync_duration_qpc = call.in.vsync_duration_qpc
    /\ p.last_submit_qpc # WZero
    /\ p.last_sync_refresh_count = WZero
    /\ p.last_sync_qpc_time = WZero

\* The operations of a live context other than d3d11_get_vsync
OtherOps == {"start_frame", "submit_frame", "swap_buffers", "reconfig", "control"}

\* C14 as claimed: d3d11_start_frame, d3d11_submit_frame, d3d11_swap_buffers,
\* d3d11_reconfig and d3d11_control leave last_sync_refresh_count,
\* last_sync_qpc_time, vsync_duration_qpc and last_submit_qpc as they were.
C14_OnlyGetVsyncMutates ==
    [][call'.op \in OtherOps => EstimatorKept]_vars

\* C14 as amended: d3d11_start_frame, d3d11_submit_frame, d3d11_reconfig and
\* d3d11_control leave the four fields as they were; d3d11_swap_buffers
\* leaves last_sync_refresh_count, last_sync_qpc_time and vsync_duration_qpc
\* as they were and sets last_submit_qpc to the counter value it read.
C14_OnlySwapBuffersSetsSubmit ==
    [][/\ call'.op \in OtherOps \ {"swap_buffers"} => EstimatorKept
       /\ call'.op = "swap_buffers"
          => /\ p'.last_sync_refresh_count = p.last_sync_refresh_count
             /\ p'.last_sync_qpc_time = p.last_sync_qpc_time
             /\ p'.vsync_duration_qpc = p.vsync_duration_qpc
             /\ p'.last_submit_qpc = call'.in.now]_vars

\* C14: d3d11_swap_buffers stored a new submission time in a context that
\* held a sample and an estimate
C14_SwapBuffersWithEstimate ==
    /\ call.op = "swap_buffers"
    /\ p.last_submit_qpc = call.in.now
    /\ call.in.now = W(1040000)
    /\ p.vsync_duration_qpc # WZero
    /\ p.last_sync_qpc_time # WZero
    /\ p.last_sync_refresh_count # WZero

\* A sync member of the sample of the call is 0
ZeroSample == call'.in.stats.SyncRefreshCount = WZero \/ call'.in.stats.SyncQPCTime = WZero

\* C15: after every call whose two queries succeed, last_sync_refresh_count
\* and last_sync_qpc_time are the sample's SyncRefreshCount and SyncQPCTime,
\* also when these are 0; so a sample with a sync member of 0 changes the
\* estimate neither in its own call nor in the call of the next sample.
C15_SampleStoredUnconditionally ==
    [][/\ GotSample
          => /\ p'.last_sync_refresh_count = call'.in.stats.SyncRefreshCount
             /\ p'.last_sync_qpc_time = call'.in.stats.SyncQPCTime
       /\ (GotSample /\ ZeroSample) => p'.vsync_duration_qpc = p.vsync_duration_qpc
       /\ (/\ AfterSample
           /\ call.in.stats.SyncRefreshCount = WZero \/ call.in.stats.SyncQPCTime = WZero
           /\ GotSample)
          => p'.vsync_duration_qpc = p.vsync_duration_qpc]_vars

\* C15: a sample without sync members came after an estimate was made, and
\* zeroes were stored
C15_ZeroSampleStored ==
    /\ call.op = "get_vsync"
    /\ call.out.exit = "end"
    /\ call.in.stats.SyncRefreshCount = WZero
    /\ call.in.stats.SyncQPCTime = WZero
    /\ call.in.vsync_duration_qpc # WZero
    /\ p.vsync_duration_qpc = call.in.vsync_duration_qpc
    /\ p.last_sync_refresh_count = WZero
    /\ p.last_sync_qpc_time = WZero

\* Both sync members of the sample and of the stored sample are non-zero
BothPopulated ==
    /\ call'.in.stats.SyncRefreshCount # WZero
    /\ p.last_sync_refresh_count # WZero
    /\ call'.in.stats.SyncQPCTime # WZero
    /\ p.last_sync_qpc_time # WZero

\* C16: for non-zero tick times sqt_passed is the whole difference
\* SyncQPCTime - last_sync_qpc_time, not its value modulo 2^32, and
\* src_passed is SyncRefreshCount - last_sync_refresh_count, so that the
\* estimate is the quotient of the two differences also when the two calls
\* are more than 2^32 ticks apart.
C16_TicksPassedIsWholeDifference ==
    [][(GotSample /\ BothPopulated)
        => /\ call'.out.sqt_passed = TicksPassed
           /\ call'.out.src_passed = RefreshesPassed
           /\ (RefreshesPassed # WZero /\ TicksPassed # WZero)
                => p'.vsync_duration_qpc = WQuot(TicksPassed, RefreshesPassed)]_vars

\* C16: a sample 2^32 + 1 ticks after the stored one left sqt_passed = 1 and
\* an estimate of 0
C16_TicksPassedTruncated ==
    /\ call.op = "get_vsync"
    /\ call.out.exit = "end"
    /\ call.in.stats.SyncRefreshCount = W(102)
    /\ call.in.stats.SyncQPCTime = FarQpcTime
    /\ call.out.src_passed = W(2)
    /\ call.out.sqt_passed = WOne
    /\ p.vsync_duration_qpc = WZero

\* The estimate the call leaves and the four members of its sample are
\* all non-zero
AllFiveNonZero ==
    /\ p'.vsync_duration_qpc # WZero
    /\ call'.in.stats.PresentCount # WZero
    /\ call'.in.stats.PresentRefreshCount # WZero
    /\ call'.in.stats.SyncRefreshCount # WZero
    /\ call'.in.stats.SyncQPCTime # WZero

\* C17: the display time is extrapolated only when the estimate and the four
\* members of the sample are non-zero, and is then SyncQPCTime +
\* (submit_count - (PresentCount + (SyncRefreshCount - PresentRefreshCount)))
\* * vsync_duration_qpc, with a signed number of queued frames; when one of
\* the five is 0, info->last_queue_display_time is not assigned.
C17_ExtrapolatesWhenAllKnown ==
    [][GotSample
        => /\ AllFiveNonZero
                => /\ call'.out.display_time_qpc = PredictedTicks
                   /\ DisplayTimeWritten <=> ~WLess(PredictedTicks, p.last_submit_qpc)
           /\ ~AllFiveNonZero => ~DisplayTimeWritten]_vars

\* C17: the submit count was behind the expected present count, the display
\* time extrapolated before the vsync of the sample, and published
C17_NegativeQueuedFrames ==
    /\ call.op = "get_vsync"
    /\ call.out.exit = "end"
    /\ extrapolates(p, call.in.stats)
    /\ WLess(call.in.submit_count, call.in.stats.PresentCount)
    /\ WLess(call.out.display_time_qpc, call.in.stats.SyncQPCTime)
    /\ "last_queue_display_time" \in call.out.written

\* C18 as claimed: after every call of d3d11_get_vsync, whatever the sync
\* interval, the outcome of the queries and the sample, info->skipped_vsyncs
\* is 0.
C18_SkippedVsyncsAlwaysZero ==
    [][call'.op = "get_vsync" => call'.out.info.skipped_vsyncs = WZero]_vars

\* C18 as amended: d3d11_get_vsync never sets info->skipped_vsyncs to a
\* positive count: a call with sync interval 1 whose two queries succeed sets
\* it to 0, and every other call leaves it as the caller passed it.
C18_SkippedVsyncsZeroOrUntouched ==
    [][call'.op = "get_vsync"
        => /\ GotSample
                => /\ call'.out.info.skipped_vsyncs = WZero
                   /\ "skipped_vsyncs" \in call'.out.written
           /\ ~GotSample
                => /\ call'.out.info.skipped_vsyncs = call'.in.info.skipped_vsyncs
                   /\ "skipped_vsyncs" \notin call'.out.written
           /\ ~WLess(WZero, call'.out.info.skipped_vsyncs)]_vars

\* C18: a call whose GetFrameStatistics failed returned with
\* info->skipped_vsyncs unset as the caller passed it
C18_SkippedVsyncsLeftUnset ==
    /\ call.op = "get_vsync"
    /\ p.opts.sync_interval = 1
    /\ call.out.exit = "GetFrameStatistics"
    /\ call.in.info.skipped_vsyncs = W(-1)
    /\ call.out.info.skipped_vsyncs = W(-1)

\* C19: the call that reads the first sample after a disjoint timeline does
\* not change the estimate: the stored sample is 0, so no vsyncs and no ticks
\* passed; this holds as long as the stored sample is 0, whatever was called
\* in between, so the estimate changes at the earliest with the second
\* sample after the disjoint timeline.
C19_NoEstimateRightAfterDisjoint ==
    [][/\ (AfterDisjoint /\ GotSample)
          => /\ call'.out.src_passed = WZero
             /\ call'.out.sqt_passed = WZero
             /\ p'.vsync_duration_qpc = p.vsync_duration_qpc
       /\ (/\ GotSample
           /\ p.last_sync_refresh_count = WZero
           /\ p.last_sync_qpc_time = WZero)
          => p'.vsync_duration_qpc = p.vsync_duration_qpc
       /\ (Disjoint \/ (call'.op = "swap_buffers" /\ p.last_sync_refresh_count = WZero
                                                  /\ p.last_sync_qpc_time = WZero))
          => /\ p'.last_sync_refresh_count = WZero
             /\ p'.last_sync_qpc_time = WZero]_vars

\* C19: the first sample of a new timeline, earlier than the samples the
\* held estimate was made from, was stored and the estimate was kept
C19_FirstSampleAfterDisjoint ==
    /\ call.op = "get_vsync"
    /\ call.out.exit = "end"
    /\ call.in.stats.SyncRefreshCount = W(100)
    /\ call.in.stats.SyncQPCTime = W(1000000)
    /\ call.out.src_passed = WZero
    /\ call.out.sqt_passed = WZero
    /\ call.in.vsync_duration_qpc = W(10000)
    /\ p.vsync_duration_qpc = W(10000)
    /\ p.last_sync_refresh_count = W(100)
    /\ p.last_sync_qpc_time = W(1000000)

\* The call resized the swapchain, ResizeBuffers succeeded, and GetBuffer or
\* the wrap of the new backbuffer failed
ReacquireFailed ==
    /\ Resized
    /\ ~FAILED(call'.in.hr_resize)
    /\ FAILED(call'.in.hr_buffer) \/ ~call'.in.wrap_ok

\* C20: a resize reports success whenever ResizeBuffers succeeds:
\* d3d11_reconfig returns true and d3d11_control returns what vo_w32_control
\* returned, also when the backbuffer could not be acquired again; the
\* context then holds no backbuffer and the failure shows only as a
\* d3d11_start_frame that returns false.
C20_ResizeSucceedsWithoutBackbuffer ==
    [][/\ (Resized /\ ~FAILED(call'.in.hr_resize))
          => /\ call'.op = "reconfig" => call'.ret = "true"
             /\ call'.op = "control" => call'.ret = call'.in.ret
       /\ ReacquireFailed
          => /\ p'.backbuffer = NULL
             /\ ~d3d11_start_frame(p').ret
       /\ (call.op \in {"reconfig", "control"} /\ p.backbuffer = NULL /\ call'.op = "start_frame")
          => call'.ret = "false"]_vars

\* C20: a reconfig returned true although GetBuffer failed after a
\* successful ResizeBuffers, and no backbuffer is held
C20_ReconfigTrueWithoutBackbuffer ==
    /\ call.op = "reconfig"
    /\ call.ret = "true"
    /\ ~FAILED(call.in.hr_resize)
    /\ FAILED(call.in.hr_buffer)
    /\ Has(call.trace, "GetBuffer")
    /\ p.backbuffer = NULL

====
